---- MODULE Spec2Model ----
(***************************************************************************)
(* Address book of task1.py: Field / Name / Phone values, Record (a name   *)
(* and a list of Phone objects) and AddressBook (a dict of Records keyed   *)
(* by name).                                                               *)
(*                                                                         *)
(* Strings are sequences of Unicode code points ("123" is <<49, 50, 51>>). *)
(* A Phone object is [id, value]: its identity (its address) and its       *)
(* attribute. A Record lives in `heap` under its reference, an             *)
(* AddressBook's dict in `books`.                                          *)
(* `last` is the last call made (method, receiver, arguments, how it       *)
(* ended, what it returned) and `old` the heap and the books as they were  *)
(* when that call started.                                                 *)
(***************************************************************************)
EXTENDS Integers, Sequences, FiniteSets, TLC

VARIABLES heap, books, last, old

vars == <<heap, books, last, old>>

---------------------------------------------------------------------------
(* Bounds of the model *)

\* longest phone list a Record grows to in SpecRecord
MaxPhones == 3
\* longest phone list a Record grows to in Spec (records stored in books)
MaxBookPhones == 1
\* longest string handed to Phone(...) in SpecPhone
MaxStrLen == 11

---------------------------------------------------------------------------
(* Values *)

\* Python's None
None == [none |-> TRUE]

\* how a call ends: it returns, or one of the two `raise ValueError(...)`
Ok == [raised |-> "nothing", at |-> "return"]
InvalidFormat == [raised |-> "ValueError", at |-> "Phone.__init__"]
NotFound == [raised |-> "ValueError", at |-> "Record.edit_phone"]
KeyError == [raised |-> "KeyError", at |-> "AddressBook.delete"]
Pending == [raised |-> "nothing", at |-> "call"]

\* references to the Record and AddressBook objects of a run
RecIds == {[rec |-> 1], [rec |-> 2], [rec |-> 3]}
BookIds == {[book |-> 1], [book |-> 2]}
R1 == [rec |-> 1]
R2 == [rec |-> 2]
B1 == [book |-> 1]

\* "John", "Jane"
John == <<74, 111, 104, 110>>
Jane == <<74, 97, 110, 101>>
Names == {John, Jane}

\* "1234567890", "5555555555", "123"
P1 == <<49, 50, 51, 52, 53, 54, 55, 56, 57, 48>>
P2 == <<53, 53, 53, 53, 53, 53, 53, 53, 53, 53>>
PShort == <<49, 50, 51>>
\* ten times U+00B2 SUPERSCRIPT TWO
PSup == <<178, 178, 178, 178, 178, 178, 178, 178, 178, 178>>

PhoneInputs == {P1, P2, PShort}
BookPhoneInputs == {P1, PShort, PSup}

\* the strings SpecPhone constructs a Phone from: every string of up to
\* MaxStrLen characters over '0' '9', over '5' 'a', over '5' U+00B2 and
\* over '5' U+0665 (ARABIC-INDIC DIGIT FIVE)
Alphabets == {{48, 57}, {53, 97}, {53, 178}, {53, 1637}}
StrInputs == UNION {UNION {[1..n -> A] : n \in 0..MaxStrLen} : A \in Alphabets}

---------------------------------------------------------------------------
(* Field, Name, Phone *)

\* the code points str.isdigit() counts as digits (Numeric_Type Digit or
\* Decimal; Unicode 14.0.0, 788 code points), as ranges <<first, last>>:
\* '0'..'9', superscript two, three and one, the Arabic-Indic digits, ...
DigitRanges ==
    {<<48, 57>>, <<178, 179>>, <<185, 185>>, <<1632, 1641>>,
     <<1776, 1785>>, <<1984, 1993>>, <<2406, 2415>>, <<2534, 2543>>,
     <<2662, 2671>>, <<2790, 2799>>, <<2918, 2927>>, <<3046, 3055>>,
     <<3174, 3183>>, <<3302, 3311>>, <<3430, 3439>>, <<3558, 3567>>,
     <<3664, 3673>>, <<3792, 3801>>, <<3872, 3881>>, <<4160, 4169>>,
     <<4240, 4249>>, <<4969, 4977>>, <<6112, 6121>>, <<6160, 6169>>,
     <<6470, 6479>>, <<6608, 6618>>, <<6784, 6793>>, <<6800, 6809>>,
     <<6992, 7001>>, <<7088, 7097>>, <<7232, 7241>>, <<7248, 7257>>,
     <<8304, 8304>>, <<8308, 8313>>, <<8320, 8329>>, <<9312, 9320>>,
     <<9332, 9340>>, <<9352, 9360>>, <<9450, 9450>>, <<9461, 9469>>,
     <<9471, 9471>>, <<10102, 10110>>, <<10112, 10120>>, <<10122, 10130>>,
     <<42528, 42537>>, <<43216, 43225>>, <<43264, 43273>>,
     <<43472, 43481>>, <<43504, 43513>>, <<43600, 43609>>,
     <<44016, 44025>>, <<65296, 65305>>, <<66720, 66729>>,
     <<68160, 68163>>, <<68912, 68921>>, <<69216, 69224>>,
     <<69714, 69722>>, <<69734, 69743>>, <<69872, 69881>>,
     <<69942, 69951>>, <<70096, 70105>>, <<70384, 70393>>,
     <<70736, 70745>>, <<70864, 70873>>, <<71248, 71257>>,
     <<71360, 71369>>, <<71472, 71481>>, <<71904, 71913>>,
     <<72016, 72025>>, <<72784, 72793>>, <<73040, 73049>>,
     <<73120, 73129>>, <<92768, 92777>>, <<92864, 92873>>,
     <<93008, 93017>>, <<120782, 120831>>, <<123200, 123209>>,
     <<123632, 123641>>, <<125264, 125273>>, <<127232, 127242>>,
     <<130032, 130041>>}

DigitCodePoints == UNION {r[1]..r[2] : r \in DigitRanges}

\* str.isdigit(): every character is a digit and there is at least one
isdigit(value) ==
    /\ Len(value) > 0
    /\ \A i \in 1..Len(value) : value[i] \in DigitCodePoints

_is_valid(value) == isdigit(value) /\ Len(value) = 10

\* Field.__init__
Field(value) == [value |-> value]

\* Name(value): Field.__init__, no check
Name(value) == Field(value)

\* Phone(value), constructed at address id: raises, or is a new object
\* holding value
Phone(value, id) ==
    IF ~_is_valid(value)
    THEN [result |-> InvalidFormat, obj |-> None]
    ELSE [result |-> Ok, obj |-> [id |-> id] @@ Field(value)]

---------------------------------------------------------------------------
(* Objects and lists *)

\* a == b for two Phone objects: Field defines no __eq__, so it is identity
object_eq(a, b) == a.id = b.id

\* the addresses of the live Phone objects, and the address a newly
\* constructed Phone gets: one no live Phone has (the lowest)
UsedIds(h) ==
    UNION {{h[r].phones[i].id : i \in 1..Len(h[r].phones)} :
              r \in {r \in RecIds : h[r] # None}}
FreshId(h) ==
    CHOOSE n \in 1..(Cardinality(UsedIds(h)) + 1) :
        n \notin UsedIds(h) /\ \A m \in 1..(n - 1) : m \in UsedIds(h)

\* list.insert(0, x) in place of list.append(x)
list_insert_front(l, x) == <<x>> \o l

\* list.append(x)
list_append(l, x) == Append(l, x)

\* the position of the last element holding the value of x, in place of
\* the position of the first element equal to x
list_index_last(l, x) ==
    CHOOSE i \in 1..Len(l) :
        l[i].value = x.value /\ \A j \in (i + 1)..Len(l) : l[j].value # x.value

\* list.index(x): the position of the first element equal to x (from 1)
list_index(l, x) ==
    CHOOSE i \in 1..Len(l) :
        object_eq(l[i], x) /\ \A j \in 1..(i - 1) : ~object_eq(l[j], x)

\* the list without any element holding the value of x, in place of without
\* the first element equal to x
list_remove_all(l, x) == SelectSeq(l, LAMBDA e : e.value # x.value)

\* list.remove(x): the list without its first element equal to x
list_remove(l, x) ==
    LET i == CHOOSE i \in 1..Len(l) :
                 object_eq(l[i], x) /\ \A j \in 1..(i - 1) : ~object_eq(l[j], x)
    IN SubSeq(l, 1, i - 1) \o SubSeq(l, i + 1, Len(l))

\* the call just made, and the state it started from
Call(op, self, args, result, ret) ==
    [op |-> op, self |-> self, args |-> args, result |-> result, ret |-> ret]
Snapshot == [heap |-> heap, books |-> books]

---------------------------------------------------------------------------
(* Record *)

\* Record(name), as the object with reference r
Record(r, name) ==
    /\ heap[r] = None
    /\ heap' = [heap EXCEPT ![r] = [name |-> Name(name), phones |-> <<>>]]
    /\ last' = Call("Record", r, <<name>>, Ok, None)
    /\ old' = Snapshot
    /\ UNCHANGED books

\* Record.add_phone
add_phone(r, phone) ==
    /\ heap[r] # None
    /\ LET new == Phone(phone, FreshId(heap)) IN
         IF new.result # Ok
         THEN /\ heap' = heap
              /\ last' = Call("add_phone", r, <<phone>>, new.result, None)
         ELSE /\ heap' = [heap EXCEPT ![r].phones = list_append(@, new.obj)]
              /\ last' = Call("add_phone", r, <<phone>>, Ok, None)
    /\ old' = Snapshot
    /\ UNCHANGED books

\* Record.find_phone: the first Phone of self.phones whose value is phone
find_phone(self, phone) ==
    LET hits == {i \in 1..Len(self.phones) : self.phones[i].value = phone}
    IN IF hits = {} THEN None
       ELSE self.phones[CHOOSE i \in hits : \A j \in hits : i <= j]

\* a call of Record.find_phone
Call_find_phone(r, phone) ==
    /\ heap[r] # None
    /\ last' = Call("find_phone", r, <<phone>>, Ok, find_phone(heap[r], phone))
    /\ old' = Snapshot
    /\ UNCHANGED <<heap, books>>

\* Record.remove_phone
remove_phone(r, phone) ==
    /\ heap[r] # None
    /\ LET phone_obj == find_phone(heap[r], phone) IN
         IF phone_obj # None
         THEN heap' = [heap EXCEPT ![r].phones = list_remove(@, phone_obj)]
         ELSE heap' = heap
    /\ last' = Call("remove_phone", r, <<phone>>, Ok, None)
    /\ old' = Snapshot
    /\ UNCHANGED books

\* Record.edit_phone
edit_phone(r, old_phone, new_phone) ==
    /\ heap[r] # None
    /\ LET phone_obj == find_phone(heap[r], old_phone)
           new == Phone(new_phone, FreshId(heap))
       IN IF phone_obj = None
          THEN /\ heap' = heap
               /\ last' = Call("edit_phone", r, <<old_phone, new_phone>>,
                               NotFound, None)
          ELSE IF new.result # Ok
          THEN /\ heap' = heap
               /\ last' = Call("edit_phone", r, <<old_phone, new_phone>>,
                               new.result, None)
          ELSE /\ heap' = [heap EXCEPT ![r].phones =
                              [@ EXCEPT ![list_index(@, phone_obj)] = new.obj]]
               /\ last' = Call("edit_phone", r, <<old_phone, new_phone>>,
                               Ok, None)
    /\ old' = Snapshot
    /\ UNCHANGED books

---------------------------------------------------------------------------
(* AddressBook *)

\* dict.setdefault(key, value) in place of dict[key] = value
dict_setdefault(data, key, value) ==
    [k \in DOMAIN data \cup {key} |-> IF k \in DOMAIN data THEN data[k] ELSE value]

\* dict[key] = value
dict_setitem(data, key, value) ==
    [k \in DOMAIN data \cup {key} |-> IF k = key THEN value ELSE data[k]]

\* dict.get(key)
dict_get(data, key) == IF key \in DOMAIN data THEN data[key] ELSE None

\* del dict[key]
dict_delitem(data, key) == [k \in DOMAIN data \ {key} |-> data[k]]

\* a key made of the record's name and first phone, in place of the name
record_key_with_phone(record) ==
    IF record.phones = <<>> THEN record.name.value
    ELSE record.name.value \o record.phones[1].value

\* the key add_record stores a record under: record.name.value
record_key(record) == record.name.value

\* AddressBook.add_record
add_record(b, r) ==
    /\ heap[r] # None
    /\ books' = [books EXCEPT ![b] = dict_setitem(@, record_key(heap[r]), r)]
    /\ last' = Call("add_record", b, <<r>>, Ok, None)
    /\ old' = Snapshot
    /\ UNCHANGED heap

\* AddressBook.find
find(b, name) ==
    /\ last' = Call("find", b, <<name>>, Ok, dict_get(books[b], name))
    /\ old' = Snapshot
    /\ UNCHANGED <<heap, books>>

\* delete without its `if name in self.data`: del raises KeyError
delete_unguarded(b, name) ==
    /\ IF name \in DOMAIN books[b]
       THEN /\ books' = [books EXCEPT ![b] = dict_delitem(@, name)]
            /\ last' = Call("delete", b, <<name>>, Ok, None)
       ELSE /\ books' = books
            /\ last' = Call("delete", b, <<name>>, KeyError, None)
    /\ old' = Snapshot
    /\ UNCHANGED heap

\* AddressBook.delete
delete(b, name) ==
    /\ IF name \in DOMAIN books[b]
       THEN books' = [books EXCEPT ![b] = dict_delitem(@, name)]
       ELSE books' = books
    /\ last' = Call("delete", b, <<name>>, Ok, None)
    /\ old' = Snapshot
    /\ UNCHANGED heap

---------------------------------------------------------------------------
(* Specifications *)

NoBooks == [b \in BookIds |-> <<>>]
NoCall == Call("none", None, <<>>, Ok, None)

\* no Record yet, two empty AddressBooks
Init ==
    /\ heap = [r \in RecIds |-> None]
    /\ books = NoBooks
    /\ last = NoCall
    /\ old = [heap |-> heap, books |-> books]

\* a call on one of the books Bs, or one making or storing one of the
\* records Rs, or one on the phones of one of the records Ps (the
\* references of new Records are taken in order)
CallOn(Bs, Rs, Ps) ==
    \/ \E r \in Rs, name \in Names :
          /\ \A q \in RecIds : q.rec < r.rec => heap[q] # None
          /\ Record(r, name)
    \/ \E r \in Ps, phone \in BookPhoneInputs :
          /\ heap[r] # None
          /\ Len(heap[r].phones) < MaxBookPhones
          /\ add_phone(r, phone)
    \/ \E r \in Ps, phone \in BookPhoneInputs : remove_phone(r, phone)
    \/ \E r \in Ps, old_phone \in BookPhoneInputs,
          new_phone \in BookPhoneInputs : edit_phone(r, old_phone, new_phone)
    \/ \E b \in Bs, r \in Rs : add_record(b, r)
    \/ \E b \in Bs, name \in Names : find(b, name)
    \/ \E b \in Bs, name \in Names : delete(b, name)

\* Spec: two AddressBooks and two Records, the first of them with phones
Next == CallOn(BookIds, {R1, R2}, {R1})

Spec == Init /\ [][Next]_vars

\* SpecBook: one AddressBook and three Records, the first of them with phones
NextBook == CallOn({B1}, RecIds, {R1})

SpecBook == Init /\ [][NextBook]_vars

\* SpecRecord: one Record, "John", and the calls of its methods
InitRecord ==
    /\ heap = [r \in RecIds |->
                 IF r = R1 THEN [name |-> Name(John), phones |-> <<>>] ELSE None]
    /\ books = NoBooks
    /\ last = NoCall
    /\ old = [heap |-> heap, books |-> books]

NextRecord ==
    \/ \E phone \in PhoneInputs :
          /\ Len(heap[R1].phones) < MaxPhones
          /\ add_phone(R1, phone)
    \/ \E phone \in PhoneInputs : Call_find_phone(R1, phone)
    \/ \E phone \in PhoneInputs : remove_phone(R1, phone)
    \/ \E old_phone \in PhoneInputs, new_phone \in PhoneInputs :
          edit_phone(R1, old_phone, new_phone)

SpecRecord == InitRecord /\ [][NextRecord]_vars

\* SpecPhone: Phone(value) for each value of StrInputs
InitPhone ==
    /\ heap = [r \in RecIds |-> None]
    /\ books = NoBooks
    /\ \E value \in StrInputs : last = Call("Phone", None, <<value>>, Pending, None)
    /\ old = [heap |-> heap, books |-> books]

\* the pending Phone(value) runs
Call_Phone ==
    /\ last.op = "Phone"
    /\ last.result = Pending
    /\ LET new == Phone(last.args[1], FreshId(heap))
       IN last' = Call("Phone", None, last.args, new.result, new.obj)
    /\ UNCHANGED <<heap, books, old>>

NextPhone == Call_Phone

SpecPhone == InitPhone /\ [][NextPhone]_vars

---------------------------------------------------------------------------
(* Properties *)

\* the rule of the specification: exactly 10 characters, each of '0'..'9'
AsciiPhone(s) == Len(s) = 10 /\ \A i \in 1..Len(s) : s[i] \in 48..57

\* the phone list of the receiver of the last call, before and after it
Before == old.heap[last.self].phones
After == heap[last.self].phones

Has(l, v) == \E i \in 1..Len(l) : l[i].value = v
FirstPos(l, v) ==
    CHOOSE i \in 1..Len(l) : l[i].value = v /\ \A j \in 1..(i - 1) : l[j].value # v

\* C1: Phone(s) raises for every s that is not 10 characters long or holds
\* a character other than '0'..'9', and for every s of exactly 10 digits it
\* succeeds and stores s.
C1_PhoneAcceptsExactlyTenDigits ==
    (last.op = "Phone" /\ last.result # Pending) =>
        IF AsciiPhone(last.args[1])
        THEN /\ last.result = Ok
             /\ last.ret # None
             /\ last.ret.value = last.args[1]
        ELSE last.result = InvalidFormat

\* C2: whatever add_phone, remove_phone and edit_phone calls were made on
\* a Record, every element of its phones holds exactly 10 characters of
\* '0'..'9'.
C2_PhonesAreTenAsciiDigits ==
    \A r \in RecIds :
        heap[r] # None =>
            \A i \in 1..Len(heap[r].phones) : AsciiPhone(heap[r].phones[i].value)

\* C3: a Record call that fails leaves phones as it was: add_phone of a
\* number that is not 10 characters of '0'..'9' raises InvalidFormat and
\* adds nothing; edit_phone with old present and such a new raises
\* InvalidFormat and old stays where it was; edit_phone with old absent
\* raises NotFound and leaves phones as it was.
C3_InvalidCallFailsAndLeavesPhones ==
    (last.op \in {"add_phone", "edit_phone"}) =>
        /\ last.result # Ok => After = Before
        /\ (last.op = "add_phone" /\ ~AsciiPhone(last.args[1])) =>
              last.result = InvalidFormat /\ After = Before
        /\ (last.op = "edit_phone" /\ ~Has(Before, last.args[1])) =>
              last.result = NotFound /\ After = Before
        /\ (/\ last.op = "edit_phone"
            /\ Has(Before, last.args[1])
            /\ ~AsciiPhone(last.args[2])) =>
              /\ last.result = InvalidFormat
              /\ After = Before
              /\ After[FirstPos(Before, last.args[1])].value = last.args[1]

\* C4: a successful edit_phone(old, new) puts a new phone holding new at
\* the position of the first occurrence of old; the length and the object
\* at every other position, later occurrences of old included, are as
\* before.
C4_EditReplacesFirstOccurrence ==
    (last.op = "edit_phone" /\ last.result = Ok) =>
        /\ Has(Before, last.args[1])
        /\ Len(After) = Len(Before)
        /\ After[FirstPos(Before, last.args[1])].value = last.args[2]
        /\ \A j \in 1..Len(Before) :
              After[FirstPos(Before, last.args[1])].id # Before[j].id
        /\ \A j \in 1..Len(Before) :
              j # FirstPos(Before, last.args[1]) => After[j] = Before[j]

C4_Witness ==
    /\ last.op = "edit_phone"
    /\ last.result = Ok
    /\ last.args[1] # last.args[2]
    /\ Len(Before) = 3
    /\ Before[1].value # last.args[1]
    /\ Before[2].value = last.args[1]
    /\ Before[3].value = last.args[1]
    /\ After[3].value = last.args[1]

\* C5: an add_phone(p) that succeeds appends a new phone holding p after
\* the elements there were, which keep their places, and find_phone(p)
\* right after it returns a phone holding p.
C5_AddAppendsAndIsFound ==
    (last.op = "add_phone" /\ last.result = Ok) =>
        /\ Len(After) = Len(Before) + 1
        /\ \A j \in 1..Len(Before) :
              After[j] = Before[j] /\ After[Len(After)].id # Before[j].id
        /\ After[Len(After)].value = last.args[1]
        /\ find_phone(heap[last.self], last.args[1]) # None
        /\ find_phone(heap[last.self], last.args[1]).value = last.args[1]

C5_Witness ==
    /\ last.op = "add_phone"
    /\ last.result = Ok
    /\ Len(Before) = 2
    /\ Before[1].value # last.args[1]
    /\ Before[2].value = last.args[1]
    /\ Len(After) = 3

\* C6: remove_phone(p) never raises; with p in the list it takes out the
\* first occurrence of p and nothing else, the rest keeping their order;
\* with p not in the list it leaves the list as it was.
C6_RemoveTakesFirstOccurrence ==
    (last.op = "remove_phone") =>
        /\ last.result = Ok
        /\ IF Has(Before, last.args[1])
           THEN /\ Len(After) = Len(Before) - 1
                /\ \A j \in 1..Len(After) :
                      After[j] = IF j < FirstPos(Before, last.args[1])
                                 THEN Before[j] ELSE Before[j + 1]
           ELSE After = Before

C6_Witness ==
    /\ last.op = "remove_phone"
    /\ Len(Before) = 3
    /\ Before[1].value = last.args[1]
    /\ Before[2].value # last.args[1]
    /\ Before[3].value = last.args[1]
    /\ Len(After) = 2

\* the entries of all the books, as <<book, key>>
Entries == UNION {{<<b, k>> : k \in DOMAIN books[b]} : b \in BookIds}

\* C7: in every AddressBook, each key is the name value of the Record
\* stored under it.
C7_KeyIsRecordName ==
    \A e \in Entries :
        /\ heap[books[e[1]][e[2]]] # None
        /\ heap[books[e[1]][e[2]]].name.value = e[2]

C7_Witness ==
    /\ last.op \in {"add_phone", "remove_phone", "edit_phone"}
    /\ heap # old.heap
    /\ \E b \in BookIds :
          /\ Cardinality(DOMAIN books[b]) = 2
          /\ \E k \in DOMAIN books[b] : books[b][k] = last.self

\* C8: add_record(record) never raises; after it find(record.name) returns
\* that record, in place of any record stored under the name before, and
\* every other entry, of this book and of the others, is as before.
C8_AddRecordLastWriteWins ==
    (last.op = "add_record") =>
        LET b == last.self
            r == last.args[1]
            key == heap[r].name.value
        IN /\ last.result = Ok
           /\ dict_get(books[b], key) = r
           /\ DOMAIN books[b] = DOMAIN old.books[b] \cup {key}
           /\ \A k \in DOMAIN old.books[b] \ {key} : books[b][k] = old.books[b][k]
           /\ \A b2 \in BookIds \ {b} : books[b2] = old.books[b2]
           /\ heap = old.heap

C8_Witness ==
    /\ last.op = "add_record"
    /\ LET b == last.self
           r == last.args[1]
           key == heap[r].name.value
       IN /\ key \in DOMAIN old.books[b]
          /\ old.books[b][key] # r
          /\ heap[old.books[b][key]].phones # heap[r].phones
          /\ books[b][key] = r
          /\ Cardinality(DOMAIN books[b]) = 2

\* C9: delete(name) never raises; a present name is removed, so that
\* find(name) returns None, and every other entry is as before; with the
\* name absent the books are as before.
C9_DeleteRemovesOnlyName ==
    (last.op = "delete") =>
        LET b == last.self
            name == last.args[1]
        IN /\ last.result = Ok
           /\ dict_get(books[b], name) = None
           /\ DOMAIN books[b] = DOMAIN old.books[b] \ {name}
           /\ \A k \in DOMAIN books[b] : books[b][k] = old.books[b][k]
           /\ \A b2 \in BookIds \ {b} : books[b2] = old.books[b2]
           /\ heap = old.heap
           /\ name \notin DOMAIN old.books[b] => books = old.books

C9_Witness ==
    /\ last.op = "delete"
    /\ last.args[1] \in DOMAIN old.books[last.self]
    /\ last.args[1] \notin DOMAIN books[last.self]
    /\ DOMAIN books[last.self] # {}

\* C10, as claimed: a Record is the value of at most one entry, over all
\* the books.
C10_RecordInAtMostOneEntry ==
    \A r \in RecIds :
        Cardinality({e \in Entries : books[e[1]][e[2]] = r}) <= 1

\* C10, amended: a Record is the value of at most one entry of any one
\* AddressBook (two books may hold the same Record).
C10_RecordOncePerBook ==
    \A b \in BookIds, r \in RecIds :
        Cardinality({k \in DOMAIN books[b] : books[b][k] = r}) <= 1

C10_Witness ==
    /\ last.op = "add_record"
    /\ \E b \in BookIds, k \in Names :
          /\ b # last.self
          /\ k \in DOMAIN books[b]
          /\ books[b][k] = last.args[1]
          /\ dict_get(books[last.self], k) = last.args[1]
          /\ Cardinality(DOMAIN books[last.self]) = 2

====
